---- MODULE Spec2Model ----
(***************************************************************************)
(* The data-dump ingestion pipeline of challenge-1 (processDataDump and    *)
(* the five functions it awaits), as a state machine over the staging      *)
(* file system, the HTTPS request, the destination write stream and the    *)
(* SQLite store.  One action per callback / awaited step of the source.    *)
(***************************************************************************)
EXTENDS Integers, Sequences, FiniteSets, TLC

\* ------------------------------------------------------------------ bounds
MaxRuns    == 2      \* runs of processDataDump in one behaviour
BodyChunks == 2      \* 'data' events a complete response body arrives in
SmallRows  == 2      \* small files hold 0..SmallRows data rows
MaxRows    == 201    \* the longest tabular file (more than two batches)
MaxDomains == 2      \* the maxDomains prop of Challenge (numDomainsRequired)
MaxCart    == 3      \* entries the cart is let grow to
MaxCompanies == 3    \* rows of the company list

\* -------------------------------------------------------- program constants
BatchSize  == 100    \* third argument of db.batchInsert

NoErr  == "none"

Tables == {"customers", "organizations"}

\* The column lists of the two createTable calls (the auto-assigned id aside).
CustomersColumns ==
  << "Index", "Customer Id", "First Name", "Last Name", "Company", "City",
     "Country", "Phone 1", "Phone 2", "Email", "Subscription Date", "Website" >>

OrganizationsColumns ==
  << "Index", "Organization Id", "Name", "Website", "Country", "Description",
     "Founded", "Industry", "Number of employees" >>

Columns(t) == IF t = "customers" THEN CustomersColumns ELSE OrganizationsColumns

Range(s) == { s[i] : i \in 1..Len(s) }

ColumnSet(t) == Range(Columns(t))

\* The order in which processDataDump awaits its stages.
StageOrder ==
  << "ensureDirs", "downloadFile", "extractTarGz", "setupDatabase",
     "loadCustomers", "loadOrganizations" >>

Stages == Range(StageOrder)

LoadStage(t) == IF t = "customers" THEN "loadCustomers" ELSE "loadOrganizations"

\* The three directories processDataDump ensures, in call order.
DirOrder == << "tmp", "extracted", "out" >>


\* ------------------------------------------------------------ tabular files
\* A tabular file: its header line, its number of data rows, and the index
\* of a data row with one field too few (short) or one too many (long), 0
\* for none.  Field k of data row i holds the token <<i, k>>.
File(h, n, short, long) == [header |-> h, n |-> n, short |-> short, long |-> long]

\* No file at the path / an archive entry not read yet.
NoFile      == File(<< >>, -1, 0, 0)
UnknownFile == File(<< >>, -2, 0, 0)

EmptyField == << >>
OldField   == << 0, 0 >>

SwapHeader(t) ==
  << Columns(t)[2], Columns(t)[1] >> \o SubSeq(Columns(t), 3, Len(Columns(t)))

MissingHeader(t) == SubSeq(Columns(t), 1, Len(Columns(t)) - 1)

UnknownHeader(t) == MissingHeader(t) \o << "Unknown" >>

\* The row counts tried: parseAndInsertCSV is one function for both tables,
\* so the long files (one full batch, one row more, more than two batches)
\* are tried on the customers table only.
RowCounts(t) ==
  IF t = "customers"
    THEN (0..SmallRows) \cup {BatchSize, BatchSize + 1, MaxRows}
    ELSE 0..SmallRows

\* The files an archive entry may hold.
FileOptions(t) ==
  { File(Columns(t), n, 0, 0) : n \in RowCounts(t) }
    \cup { File(SwapHeader(t), SmallRows, 0, 0) }
    \cup { File(MissingHeader(t), n, 0, 0) : n \in 0..1 }
    \cup { File(UnknownHeader(t), 1, 0, 0) }
    \cup { File(Columns(t), SmallRows, 1, 0) }
    \cup { File(Columns(t), SmallRows, 0, SmallRows) }

RowLen(f, i) ==
  IF i = f.short THEN Len(f.header) - 1
  ELSE IF i = f.long THEN Len(f.header) + 1
  ELSE Len(f.header)

\* Data row i of file f as the parser splits it: a sequence of fields.
RowOf(f, i) == [k \in 1..RowLen(f, i) |-> << i, k >>]

\* fast-csv with { headers: true }: a row longer than the header is a parse
\* error; the fields are keyed by header name, a missing trailing field
\* becoming the empty string.
RowTooLong(h, row) == Len(row) > Len(h)

PosIn(h, c) == CHOOSE k \in 1..Len(h) : h[k] = c

MapHeaders(h, row) ==
  [c \in Range(h) |-> IF PosIn(h, c) <= Len(row) THEN row[PosIn(h, c)] ELSE EmptyField]

\* --------------------------------------------------------------- the store
\* The store maps each table to whether it exists and to its rows in
\* insertion (id) order; a row maps column names to values.
NoTable    == [exists |-> FALSE, rows |-> << >>]
EmptyTable == [exists |-> TRUE, rows |-> << >>]

\* Mutant: dropTable, which the store refuses for a table that is absent.
DropTable(s, t) == [ok |-> s[t].exists, store |-> [s EXCEPT ![t] = NoTable]]

DropTableIfExists(s, t) == [ok |-> TRUE, store |-> [s EXCEPT ![t] = NoTable]]

CreateTable(s, t) ==
  IF ~s[t].exists
    THEN [ok |-> TRUE, store |-> [s EXCEPT ![t] = EmptyTable]]
    ELSE [ok |-> FALSE, store |-> s]

\* The four schema statements of setupDatabase, in order.
SetupSteps ==
  << << "drop", "customers" >>, << "drop", "organizations" >>,
     << "create", "customers" >>, << "create", "organizations" >> >>

\* Mutant: the drops are skipped and a table is created only when absent
\* (createTableIfNotExists), so rows of an earlier run stay.
ApplyDDLKeep(s, step) ==
  IF step[1] = "create" /\ ~s[step[2]].exists THEN CreateTable(s, step[2])
                                              ELSE [ok |-> TRUE, store |-> s]

ApplyDDL(s, step) ==
  IF step[1] = "drop" THEN DropTableIfExists(s, step[2])
                      ELSE CreateTable(s, step[2])

\* Mutant: the columns are nullable, an absent column is stored as NULL.
InsertNullable(s, t, rows) ==
  /\ s[t].exists
  /\ \A i \in 1..Len(rows) : DOMAIN rows[i] \subseteq ColumnSet(t)

\* An insert of rows into table t is accepted when the table exists, every
\* key of every row is a declared column, and every declared column is
\* present and non-null (all are notNullable).
InsertOk(s, t, rows) ==
  /\ s[t].exists
  /\ \A i \in 1..Len(rows) : DOMAIN rows[i] = ColumnSet(t)

\* db.batchInsert(table, rows, BatchSize): rows cut into consecutive chunks.
NumChunks(rows) == (Len(rows) + BatchSize - 1) \div BatchSize

Min(a, b) == IF a < b THEN a ELSE b

\* Mutant: every chunk stops one row short of the batch boundary.
ChunkShort(rows, k) ==
  SubSeq(rows, (k - 1) * BatchSize + 1, Min(k * BatchSize - 1, Len(rows)))

\* Mutant: batchInsert issues the whole array as one insert (no chunking).
ChunkWhole(rows, k) == IF k = 1 THEN rows ELSE << >>

ChunkOf(rows, k) ==
  SubSeq(rows, (k - 1) * BatchSize + 1, Min(k * BatchSize, Len(rows)))

\* Mutant: each chunk's insert is committed on its own, outside any
\* transaction.
AutoCommitInsert(s, t, tx, c) ==
  [store |-> [s EXCEPT ![t].rows = @ \o c], tx |-> << >>]

\* Mutant: the failed load clears the store, every table losing its rows.
RollbackTruncate(s, t) ==
  [u \in Tables |-> IF s[u].exists THEN EmptyTable ELSE s[u]]

\* The rollback of batchInsert's transaction on table t: the store as it
\* was when the transaction began.
Rollback(s, t) == s

\* An accepted insert of chunk c inside batchInsert's transaction tx: the
\* rows are pending until the commit and the table is not changed yet.
TxInsert(s, t, tx, c) == [store |-> s, tx |-> tx \o c]

OldRow(t) == [c \in ColumnSet(t) |-> OldField]

\* History kept for the comparison of runs: the row count of each table.
TableSizes(s) == [t \in Tables |-> Len(s[t].rows)]
NoCounts == [t \in Tables |-> -1]


\* ------------------------------------------------------------------- state
VARIABLES
  run,          \* number of runs of processDataDump started so far
  outcome,      \* processDataDump's promise: "none", "pending", "resolved", "rejected"
  perr,         \* the error processDataDump rejected with
  logDone,      \* the Done line has been logged in this run
  firstRun,     \* history: per table, its row count when the first run resolved
  rejections,   \* history: the << stage, error >> of the first rejection of processDataDump
  uncaught,     \* the unhandled 'error' event that ended the process, or NoErr
  pr,           \* per stage, its promise: "none", "running", "resolved", "rejected"
  started,      \* the stages called in this run, in call order
  raised,       \* per stage, the error it met ('error' event or throw)
  serr,         \* per stage, the error its promise rejected with
  dirs,         \* staging file system: each directory path is "none", "dir" or "file"
  archiveFile,  \* what is at archivePath
  csv,          \* per table, the tabular file at its path under extractDir
  store,        \* the SQLite store
  remote,       \* the archive served at DUMP_DOWNLOAD_URL
  mk,           \* ensureDirs: index in DirOrder of the mkdir in flight
  req,          \* the https request
  resp,         \* the response: status and body chunks received
  ws,           \* the write stream on archivePath
  unl,          \* the error handler's fs.unlink
  ex,           \* extractTarGz
  sd,           \* setupDatabase: index of the schema statement in flight
  ld,           \* per table, parseAndInsertCSV
  conn,         \* per store stage, the connection of its knex instance
  domains,      \* challenge-3: the cart, the number of entries of each kind
  addReq,       \* challenge-3: the add whose availability check is in flight
  editReq,      \* challenge-3: the edit whose availability check is in flight
  dialog,       \* challenge-3: the open confirmation dialog and its onConfirm
  op,           \* challenge-3: the operation the last step of the cart performed
  job,          \* challenge-2: processCompanyList
  runner        \* challenge-2: the runner's async function

orch == << run, outcome, perr, logDone, firstRun, rejections, conn, uncaught, pr, started, raised, serr >>
disk == << dirs, archiveFile, csv >>
dl   == << req, resp, ws, unl >>
pipeline == << orch, disk, store, remote, mk, dl, ex, sd, ld >>
cart  == << domains, addReq, editReq, dialog, op >>
crawl == << job, runner >>
vars == << pipeline, cart, crawl >>

NoArchive == [exists |-> FALSE, body |-> "empty", chunks |-> 0]
NoStream  == [state |-> "none", buffered |-> 0, ended |-> FALSE, detached |-> FALSE]
NoResp    == [status |-> 0, received |-> 0]
NoExtract == [phase |-> "idle", next |-> 0]
NoLoad    == [phase |-> "idle", idx |-> 0, rows |-> << >>, chunk |-> 0, tx |-> << >>]

StatusCodes  == {200, 404}
Success(code) == code >= 200 /\ code < 300

ArchiveKinds == {"ok", "notgzip", "badtar"}

Alive == uncaught = NoErr

\* The stages that make a knex instance on the store, and its pool's one
\* connection: opened by the instance's first query; no stage calls
\* destroy(), so nothing moves it on from "open".
StoreStages == {"setupDatabase", "loadCustomers", "loadOrganizations"}
NoConnections == [s \in StoreStages |-> "none"]
Acquire(c, s) == [c EXCEPT ![s] = "open"]

\* ----------------------------------------------------- the async machinery
\* Mutant: the call is made without awaiting the previous stage's promise.
NotAwaited(s) == pr[s] # "none"

\* `await p`: the continuation runs once p has resolved.
Awaited(s) == pr[s] = "resolved"

CanCall(prev, s) ==
  /\ Alive
  /\ outcome = "pending"
  /\ Awaited(prev)
  /\ pr[s] = "none"

Begin(s) ==
  /\ pr' = [pr EXCEPT ![s] = "running"]
  /\ started' = Append(started, s)

ResolveStage(s) ==
  /\ pr' = [pr EXCEPT ![s] = "resolved"]
  /\ UNCHANGED << serr, raised >>

\* reject(e) of stage s, e being the error the stage met.
RejectStage(s, e) ==
  /\ pr' = [pr EXCEPT ![s] = "rejected"]
  /\ serr' = [serr EXCEPT ![s] = e]
  /\ raised' = [raised EXCEPT ![s] = e]

\* An 'error' event with no listener: the process ends with the error.
Crash(s, e) ==
  /\ uncaught' = e
  /\ raised' = [raised EXCEPT ![s] = e]

\* ====================================== challenge-3: the domain shopping cart
\* A domain name and a typed input are sequences of characters.
Com == << ".", "c", "o", "m" >>
App == << ".", "a", "p", "p" >>
Xyz == << ".", "x", "y", "z" >>

\* What the user may type into the add field or the edit dialog.
Inputs ==
  { << "a", "a" >> \o Com, << "a" >> \o Com, << "a" >> \o App, << "a" >> \o Xyz,
    << " ", "A" >> \o Com, << "a", ".", "i", "o" >> }

\* String.prototype.toLowerCase, on the characters the inputs use.
LowerChar(ch) == IF ch = "A" THEN "a" ELSE ch
ToLowerCase(s) == [i \in 1..Len(s) |-> LowerChar(s[i])]

\* String.prototype.trim.
RECURSIVE TrimStart(_)
TrimStart(s) == IF s # << >> /\ Head(s) = " " THEN TrimStart(Tail(s)) ELSE s
RECURSIVE TrimEnd(_)
TrimEnd(s) ==
  IF s # << >> /\ s[Len(s)] = " " THEN TrimEnd(SubSeq(s, 1, Len(s) - 1)) ELSE s
Trim(s) == TrimEnd(TrimStart(s))

\* inputDomain.trim().toLowerCase()
Normalize(s) == ToLowerCase(Trim(s))

EndsWith(s, suffix) ==
  /\ Len(s) >= Len(suffix)
  /\ SubSeq(s, Len(s) - Len(suffix) + 1, Len(s)) = suffix

LabelChars == {"a", "b", "0", "-"}

\* /^[a-z0-9-]+\.(com|xyz|app)$/.test(d)
ValidDomain(d) ==
  /\ \E tld \in {Com, Xyz, App} : EndsWith(d, tld)
  /\ Len(d) > 4
  /\ \A i \in 1..(Len(d) - 4) : d[i] \in LabelChars

Names == { Normalize(i) : i \in { j \in Inputs : ValidDomain(Normalize(j)) } }

\* A cart entry is a fresh object { name, available }; the immutable Set
\* compares entries by identity, so the cart is a multiset of such objects:
\* the number of entries of each kind.
DomainInfo(n, a) == [name |-> n, available |-> a]
Kinds == { DomainInfo(n, a) : n \in Names, a \in BOOLEAN }
EmptyCart == [k \in Kinds |-> 0]

RECURSIVE SumOver(_, _)
SumOver(c, ks) ==
  IF ks = {} THEN 0
  ELSE LET k == CHOOSE x \in ks : TRUE IN c[k] + SumOver(c, ks \ {k})

\* domains.size
Size(c) == SumOver(c, Kinds)

\* existingDomains = domains.map(d => d.name).toArray()
ExistingDomains(c) == { k.name : k \in { x \in Kinds : c[x] > 0 } }

CountOfName(c, n) == SumOver(c, { k \in Kinds : k.name = n })

\* prevDomains.add({ name, available })
AddEntry(c, k) == [c EXCEPT ![k] = @ + 1]

\* prevDomains.delete(domainToEdit)
DeleteEntry(c, k) == [c EXCEPT ![k] = @ - 1]

\* prevDomains.filter(d => d.name !== domainName)
WithoutName(c, n) == [k \in Kinds |-> IF k.name = n THEN 0 ELSE c[k]]

\* prevDomains.filter(d => d.available)
OnlyAvailable(c) == [k \in Kinds |-> IF k.available THEN c[k] ELSE 0]

\* getScore and the comparator of keepBestDomains' sort: negative when a is
\* to come before b.
GetScore(domain) ==
  IF EndsWith(domain, Com) THEN 3 ELSE IF EndsWith(domain, App) THEN 2 ELSE 1

Compare(a, b) ==
  IF GetScore(b.name) - GetScore(a.name) # 0
    THEN GetScore(b.name) - GetScore(a.name)
    ELSE Len(a.name) - Len(b.name)

\* domains.toArray().sort(compare): the arrays holding the entries of c in
\* an order the comparator accepts (the order of equal entries is that of
\* the Set's iteration, which nothing fixes).
Occurrences(arr, k) == Cardinality({ i \in DOMAIN arr : arr[i] = k })

SortedArrays(c) ==
  { arr \in [1..Size(c) -> { k \in Kinds : c[k] > 0 }] :
      /\ \A k \in Kinds : Occurrences(arr, k) = c[k]
      /\ \A i \in 1..Size(c) : \A j \in 1..Size(c) :
           i < j => Compare(arr[i], arr[j]) <= 0 }

\* Set(array)
SetOf(arr) == [k \in Kinds |-> Occurrences(arr, k)]

\* sortedDomains.slice(0, numDomainsRequired)
Slice(arr, n) == SubSeq(arr, 1, Min(n, Len(arr)))

\* Mutant: the purchase button is enabled from the required size upwards.
CanPurchaseAtLeast(c) == Size(c) >= MaxDomains

\* canPurchase = domains.size === numDomainsRequired
CanPurchase(c) == Size(c) = MaxDomains

NoReq    == << >>
NoEdit   == [old |-> << >>, new |-> << >>]
NoDialog == [kind |-> "none", name |-> << >>, closure |-> EmptyCart]

\* A modal dialog is open: the controls behind it cannot be used.
Modal == dialog # NoDialog

InitCart ==
  /\ domains = EmptyCart
  /\ addReq = NoReq
  /\ editReq = NoEdit
  /\ dialog = NoDialog
  /\ op = "none"

\* validateAndAddDomain up to its await: the input is trimmed, lowercased,
\* validated and looked up in existingDomains; then the availability check
\* is sent (isChecking disables the field and the button meanwhile).
ValidateAndAddDomain ==
  /\ ~Modal
  /\ addReq = NoReq
  /\ Size(domains) < MaxCart
  /\ \E input \in Inputs :
       LET trimmedDomain == Normalize(input) IN
         IF ~ValidDomain(trimmedDomain)
           THEN /\ op' = "invalid"
                /\ UNCHANGED addReq
         ELSE IF trimmedDomain \in ExistingDomains(domains)
           THEN /\ op' = "duplicate"
                /\ UNCHANGED addReq
         ELSE /\ op' = "checking"
              /\ addReq' = trimmedDomain
  /\ UNCHANGED << domains, editReq, dialog, crawl, pipeline >>

\* The check answers: onAddDomain(trimmedDomain, available), that is
\* handleAddDomain's setDomains(prev => prev.add(...)).
HandleAddDomain ==
  /\ addReq # NoReq
  /\ \E available \in BOOLEAN :
       domains' = AddEntry(domains, DomainInfo(addReq, available))
  /\ addReq' = NoReq
  /\ op' = "add"
  /\ UNCHANGED << editReq, dialog, crawl, pipeline >>

\* The check fails: the catch shows a toast, nothing is added.
AddCheckFailed ==
  /\ addReq # NoReq
  /\ addReq' = NoReq
  /\ op' = "failed"
  /\ UNCHANGED << domains, editReq, dialog, crawl, pipeline >>

\* handleEdit of the edit dialog of a cart entry, up to its call of
\* onEditDomain: an unchanged input closes the dialog, the input is
\* trimmed, lowercased and validated (not looked up in the cart), a first
\* check is awaited and its result dropped; handleEditDomain then sends its
\* own check and the dialog closes.
HandleEdit ==
  /\ ~Modal
  /\ editReq = NoEdit
  /\ \E domain \in { k \in Kinds : domains[k] > 0 } : \E editedDomain \in Inputs :
       LET trimmedDomain == Normalize(editedDomain) IN
         IF editedDomain = domain.name
           THEN /\ op' = "unchanged"
                /\ UNCHANGED editReq
         ELSE IF ~ValidDomain(trimmedDomain)
           THEN /\ op' = "invalid"
                /\ UNCHANGED editReq
         ELSE /\ op' = "checking"
              /\ editReq' = [old |-> domain.name, new |-> trimmedDomain]
  /\ UNCHANGED << domains, addReq, dialog, crawl, pipeline >>

\* handleEditDomain after its await: the entry found under the old name,
\* if there is one, is replaced by { name: newDomain, available }.
HandleEditDomain ==
  /\ editReq # NoEdit
  /\ \E available \in BOOLEAN :
       LET found == { k \in Kinds : domains[k] > 0 /\ k.name = editReq.old } IN
         IF found = {}
           THEN domains' = domains
           ELSE \E domainToEdit \in found :
                  domains' = AddEntry(DeleteEntry(domains, domainToEdit),
                                      DomainInfo(editReq.new, available))
  /\ editReq' = NoEdit
  /\ op' = "edit"
  /\ UNCHANGED << addReq, dialog, crawl, pipeline >>

\* A check of the edit fails: a toast, the cart is not changed.
EditCheckFailed ==
  /\ editReq # NoEdit
  /\ editReq' = NoEdit
  /\ op' = "failed"
  /\ UNCHANGED << domains, addReq, dialog, crawl, pipeline >>

\* openConfirmationDialog(title, message, onConfirm): the dialog keeps the
\* onConfirm it was opened with.  keepBestDomains' onConfirm closes over the
\* domains of the render in which the button was clicked; the others use
\* the functional form of setDomains.
OpenConfirmationDialog ==
  /\ ~Modal
  /\ \E kind \in {"clear", "removeUnavailable", "keepBest"} :
       dialog' = [kind |-> kind, name |-> << >>,
                  closure |-> IF kind = "keepBest" THEN domains ELSE EmptyCart]
  /\ op' = "open"
  /\ UNCHANGED << domains, addReq, editReq, crawl, pipeline >>

\* DomainList's handleRemoveDomain: the dialog of the delete icon of an
\* entry.
OpenRemoveDialog ==
  /\ ~Modal
  /\ \E n \in ExistingDomains(domains) :
       dialog' = [kind |-> "remove", name |-> n, closure |-> EmptyCart]
  /\ op' = "open"
  /\ UNCHANGED << domains, addReq, editReq, crawl, pipeline >>

\* Cancel: onClose.
CancelDialog ==
  /\ Modal
  /\ dialog' = NoDialog
  /\ op' = "cancel"
  /\ UNCHANGED << domains, addReq, editReq, crawl, pipeline >>

\* Yes on Clear Cart: setDomains(Set()).
ConfirmClearCart ==
  /\ dialog.kind = "clear"
  /\ domains' = EmptyCart
  /\ dialog' = NoDialog
  /\ op' = "clear"
  /\ UNCHANGED << addReq, editReq, crawl, pipeline >>

\* Yes on Remove Unavailable Domains.
ConfirmRemoveUnavailable ==
  /\ dialog.kind = "removeUnavailable"
  /\ domains' = OnlyAvailable(domains)
  /\ dialog' = NoDialog
  /\ op' = "removeUnavailable"
  /\ UNCHANGED << addReq, editReq, crawl, pipeline >>

\* Yes on Remove Domain: onRemoveDomain(domainName).
ConfirmRemoveDomain ==
  /\ dialog.kind = "remove"
  /\ domains' = WithoutName(domains, dialog.name)
  /\ dialog' = NoDialog
  /\ op' = "remove"
  /\ UNCHANGED << addReq, editReq, crawl, pipeline >>

\* Yes on Keep Best Domains: the domains the closure holds are sorted and
\* the first numDomainsRequired of them become the cart.
ConfirmKeepBest ==
  /\ dialog.kind = "keepBest"
  /\ \E sortedDomains \in SortedArrays(dialog.closure) :
       domains' = SetOf(Slice(sortedDomains, MaxDomains))
  /\ dialog' = NoDialog
  /\ op' = "keepBest"
  /\ UNCHANGED << addReq, editReq, crawl, pipeline >>

\* A click on the purchase button, which is disabled unless canPurchase:
\* setDomains(Set()).
HandlePurchase ==
  /\ ~Modal
  /\ CanPurchase(domains)
  /\ domains' = EmptyCart
  /\ op' = "purchase"
  /\ UNCHANGED << addReq, editReq, dialog, crawl, pipeline >>

NextCart ==
  \/ ValidateAndAddDomain
  \/ HandleAddDomain
  \/ AddCheckFailed
  \/ HandleEdit
  \/ HandleEditDomain
  \/ EditCheckFailed
  \/ OpenConfirmationDialog
  \/ OpenRemoveDialog
  \/ CancelDialog
  \/ ConfirmClearCart
  \/ ConfirmRemoveUnavailable
  \/ ConfirmRemoveDomain
  \/ ConfirmKeepBest
  \/ HandlePurchase

\* ================================= challenge-2: the company list and runner
\* The job is the one call of processCompanyList: the step it is at, the
\* companies parsed from the CSV, the requests the crawler has finished, the
\* items pushed to the dataset, the error its catch logged and whether the
\* JSON file was written.
IdleJob ==
  [phase |-> "idle", companies |-> 0, crawled |-> 0, items |-> 0,
   error |-> NoErr, written |-> FALSE]

InitCrawl ==
  /\ job = IdleJob
  /\ runner = "idle"

\* catch (error) { console.error(...) } of processCompanyList: the error is
\* logged and the function returns, so its promise is fulfilled.
CatchAndLog(j, error) == [j EXCEPT !.phase = "returned", !.error = error]

\* The runner's try/catch around await processCompanyList().
RunnerSettles(j) == IF j.phase = "rejected" THEN "caught" ELSE "done"

\* runner.ts: console.log("Starting process..."); processCompanyList().
RunnerStarts ==
  /\ runner = "idle"
  /\ runner' = "awaiting"
  /\ job' = [job EXCEPT !.phase = "parsing"]
  /\ UNCHANGED << cart, pipeline >>

\* parseCSV: the parser emits 'end', the promise resolves to the companies.
ParseCSV ==
  /\ runner = "awaiting" /\ job.phase = "parsing"
  /\ \E n \in 0..MaxCompanies :
       job' = [job EXCEPT !.phase = "crawling", !.companies = n]
  /\ UNCHANGED << runner, cart, pipeline >>

\* parseCSV: the parser emits 'error' (a malformed row), the promise rejects.
ParseCSVError ==
  /\ runner = "awaiting" /\ job.phase = "parsing"
  /\ job' = CatchAndLog(job, "parse")
  /\ UNCHANGED << runner, cart, pipeline >>

\* parseCSV: the read stream emits 'error' (no such file); it has no
\* listener, the process dies of the uncaught exception.
ReadStreamError ==
  /\ runner = "awaiting" /\ job.phase = "parsing"
  /\ job' = [job EXCEPT !.phase = "crashed", !.error = "ENOENT"]
  /\ runner' = "dead"
  /\ UNCHANGED << cart, pipeline >>

\* The crawler finishes one request: the handler pushed the scraped company
\* to the dataset, or it threw on every retry and the request is given up.
CrawlRequest ==
  /\ runner = "awaiting" /\ job.phase = "crawling"
  /\ job.crawled < job.companies
  /\ \E handled \in BOOLEAN :
       job' = [job EXCEPT !.crawled = @ + 1,
                          !.items = IF handled THEN @ + 1 ELSE @]
  /\ UNCHANGED << runner, cart, pipeline >>

\* crawler.run resolves once every request is finished.
CrawlerRun ==
  /\ runner = "awaiting" /\ job.phase = "crawling"
  /\ job.crawled = job.companies
  /\ job' = [job EXCEPT !.phase = "dataset"]
  /\ UNCHANGED << runner, cart, pipeline >>

\* crawler.run rejects (a URL it cannot enqueue, a storage failure).
CrawlerRunError ==
  /\ runner = "awaiting" /\ job.phase = "crawling"
  /\ job' = CatchAndLog(job, "crawl")
  /\ UNCHANGED << runner, cart, pipeline >>

\* Dataset.open() and dataset.getData().
DatasetGetData ==
  /\ runner = "awaiting" /\ job.phase = "dataset"
  /\ \E ok \in BOOLEAN :
       job' = IF ok THEN [job EXCEPT !.phase = "ensureDir"]
                    ELSE CatchAndLog(job, "dataset")
  /\ UNCHANGED << runner, cart, pipeline >>

\* fsExtra.ensureDir(path.dirname(JSON_OUTPUT_PATH))
EnsureDir ==
  /\ runner = "awaiting" /\ job.phase = "ensureDir"
  /\ \E ok \in BOOLEAN :
       job' = IF ok THEN [job EXCEPT !.phase = "writing"]
                    ELSE CatchAndLog(job, "ensureDir")
  /\ UNCHANGED << runner, cart, pipeline >>

\* fsExtra.writeJson(JSON_OUTPUT_PATH, items, { spaces: 2 })
WriteJson ==
  /\ runner = "awaiting" /\ job.phase = "writing"
  /\ \E ok \in BOOLEAN :
       job' = IF ok THEN [job EXCEPT !.phase = "returned", !.written = TRUE]
                    ELSE CatchAndLog(job, "writeJson")
  /\ UNCHANGED << runner, cart, pipeline >>

\* The await of the runner settles: "Done!" is printed unless the promise
\* rejected.
RunnerAwaits ==
  /\ runner = "awaiting"
  /\ job.phase \in {"returned", "rejected"}
  /\ runner' = RunnerSettles(job)
  /\ UNCHANGED << job, cart, pipeline >>

NextRunner ==
  \/ RunnerStarts
  \/ ParseCSV
  \/ ParseCSVError
  \/ ReadStreamError
  \/ CrawlRequest
  \/ CrawlerRun
  \/ CrawlerRunError
  \/ DatasetGetData
  \/ EnsureDir
  \/ WriteJson
  \/ RunnerAwaits

\* -------------------------------------------------------------------- Init
InitDirs ==
  { [tmp |-> "none", extracted |-> "none", out |-> "none"],
    [tmp |-> "dir",  extracted |-> "dir",  out |-> "dir"],
    [tmp |-> "dir",  extracted |-> "file", out |-> "dir"],
    [tmp |-> "file", extracted |-> "none", out |-> "none"],
    [tmp |-> "dir",  extracted |-> "dir",  out |-> "file"] }

InitStores ==
  { [customers |-> NoTable, organizations |-> NoTable],
    [customers |-> [exists |-> TRUE, rows |-> << OldRow("customers") >>],
     organizations |-> NoTable],
    [customers |-> NoTable,
     organizations |-> [exists |-> TRUE, rows |-> << OldRow("organizations") >>]],
    [customers |-> [exists |-> TRUE, rows |-> << OldRow("customers") >>],
     organizations |-> [exists |-> TRUE,
                        rows |-> << OldRow("organizations"), OldRow("organizations") >>]] }

InitPipeline ==
  /\ run = 0
  /\ outcome = "none"
  /\ perr = NoErr
  /\ logDone = FALSE
  /\ firstRun = NoCounts
  /\ rejections = {}
  /\ conn = NoConnections
  /\ uncaught = NoErr
  /\ pr = [s \in Stages |-> "none"]
  /\ started = << >>
  /\ raised = [s \in Stages |-> NoErr]
  /\ serr = [s \in Stages |-> NoErr]
  /\ dirs \in InitDirs
  /\ archiveFile = NoArchive
  /\ csv = [t \in Tables |-> NoFile]
  /\ store \in InitStores
  /\ remote = [kind |-> "unknown", customers |-> UnknownFile, organizations |-> UnknownFile]
  /\ mk = 0
  /\ req = "none"
  /\ resp = NoResp
  /\ ws = NoStream
  /\ unl = "none"
  /\ ex = NoExtract
  /\ sd = 0
  /\ ld = [t \in Tables |-> NoLoad]

\* The pipeline before any run, on a machine with no staging directories
\* and an empty database.
IdlePipeline ==
  /\ InitPipeline
  /\ \A d \in DOMAIN dirs : dirs[d] = "none"
  /\ \A t \in Tables : store[t] = NoTable

Init == InitPipeline /\ InitCart /\ InitCrawl

\* ------------------------------------------------------- processDataDump
\* A call of processDataDump (a fresh process): the synchronous part up to
\* the first mkdir.
ProcessDataDump ==
  /\ run < MaxRuns
  /\ outcome # "pending" \/ ~Alive
  /\ run' = run + 1
  /\ outcome' = "pending"
  /\ perr' = NoErr
  /\ logDone' = FALSE
  /\ uncaught' = NoErr
  /\ pr' = [s \in Stages |-> IF s = "ensureDirs" THEN "running" ELSE "none"]
  /\ started' = << "ensureDirs" >>
  /\ raised' = [s \in Stages |-> NoErr]
  /\ serr' = [s \in Stages |-> NoErr]
  /\ mk' = 1
  /\ req' = "none"
  /\ resp' = NoResp
  /\ ws' = NoStream
  /\ unl' = "none"
  /\ ex' = NoExtract
  /\ sd' = 0
  /\ ld' = [t \in Tables |-> NoLoad]
  /\ conn' = NoConnections
  /\ UNCHANGED << cart, crawl, firstRun, rejections, disk, store, remote >>

\* Mutant: the rejection path removes the staged archive and the extracted
\* files.
CleanStaging == archiveFile' = NoArchive /\ csv' = [t \in Tables |-> NoFile]

\* processDataDump has no catch and no finally: the rejection touches no
\* staging artifact.
KeepStaging == UNCHANGED << archiveFile, csv >>

\* A rejected await throws out of the async function: processDataDump
\* rejects with the stage's error.
Throw(recorded) ==
  /\ Alive
  /\ outcome = "pending"
  /\ \E s \in Stages :
       /\ pr[s] = "rejected"
       /\ perr' = serr[s]
       /\ rejections' = IF recorded /\ rejections = {}
                           THEN { << s, serr[s] >> } ELSE rejections
  /\ outcome' = "rejected"
  /\ KeepStaging
  /\ UNCHANGED << cart, crawl, run, logDone, firstRun, conn, uncaught, pr, started, raised, serr,
                  dirs, store, remote, mk, dl, ex, sd, ld >>

Propagate == Throw(FALSE)

\* The same step, the rejection being entered in the history.
PropagateRecorded == Throw(TRUE)

\* After the last await: console.log(Done) and the implicit return.
Done ==
  /\ Alive
  /\ outcome = "pending"
  /\ Awaited("loadOrganizations")
  /\ logDone' = TRUE
  /\ outcome' = "resolved"
  /\ firstRun' = IF firstRun = NoCounts THEN TableSizes(store) ELSE firstRun
  /\ UNCHANGED << cart, crawl, rejections, conn, run, perr, uncaught, pr, started, raised, serr,
                  disk, store, remote, mk, dl, ex, sd, ld >>

\* ------------------------------------------- ensureDirectoryExistsAsync
\* fsPromises.mkdir(d, { recursive: true }).
Mkdir(ds, d) ==
  IF d = "extracted" /\ ds["tmp"] = "file"
    THEN [err |-> "ENOTDIR", dirs |-> ds]
  ELSE IF ds[d] = "file"
    THEN [err |-> "EEXIST", dirs |-> ds]
  ELSE [err |-> NoErr,
        dirs |-> [x \in DOMAIN ds |->
                    IF x = d \/ (d = "extracted" /\ x = "tmp") THEN "dir" ELSE ds[x]]]

\* The catch clause rethrows everything but EEXIST.
Rethrown(e) == e # NoErr /\ e # "EEXIST"

EnsureDirectoryExistsAsync ==
  /\ Alive
  /\ pr["ensureDirs"] = "running"
  /\ mk \in 1..Len(DirOrder)
  /\ LET r == Mkdir(dirs, DirOrder[mk]) IN
       /\ dirs' = r.dirs
       /\ IF Rethrown(r.err)
            THEN /\ RejectStage("ensureDirs", r.err)
                 /\ mk' = 0
            ELSE IF mk = Len(DirOrder)
              THEN /\ ResolveStage("ensureDirs")
                   /\ mk' = 0
              ELSE /\ mk' = mk + 1
                   /\ UNCHANGED << pr, serr, raised >>
  /\ UNCHANGED << cart, crawl, run, outcome, perr, logDone, firstRun, rejections, conn, uncaught, started,
                  archiveFile, csv, store, remote, dl, ex, sd, ld >>


\* ------------------------------------------------------------ downloadFile
\* The call: fs.createWriteStream(dest) starts an asynchronous open, and
\* https.get(url, ...) sends the request.
CallDownloadFile ==
  /\ CanCall("ensureDirs", "downloadFile")
  /\ Begin("downloadFile")
  /\ ws' = [NoStream EXCEPT !.state = "opening"]
  /\ req' = "connecting"
  /\ UNCHANGED << cart, crawl, run, outcome, perr, logDone, firstRun, rejections, conn, uncaught, raised, serr,
                  disk, store, remote, mk, resp, unl, ex, sd, ld >>

\* The open of the write stream completes: flags 'w' create or truncate
\* the file at dest.
WsOpen ==
  /\ Alive
  /\ ws.state = "opening"
  /\ dirs["tmp"] = "dir"
  /\ ws' = [ws EXCEPT !.state = "open"]
  /\ archiveFile' = [exists |-> TRUE, body |-> "empty", chunks |-> 0]
  /\ UNCHANGED << cart, crawl, orch, dirs, csv, store, remote, mk, req, resp, unl, ex, sd, ld >>

\* The request's 'error' handler: fs.unlink(dest, ...) is issued.
OnRequestError(e) ==
  /\ req' = "errored"
  /\ unl' = "issued"
  /\ raised' = [raised EXCEPT !["downloadFile"] = e]

\* A connection error before any response (DNS, refused, reset).
ReqError ==
  /\ Alive
  /\ req = "connecting"
  /\ OnRequestError("ECONNREFUSED")
  /\ UNCHANGED << cart, crawl, run, outcome, perr, logDone, firstRun, rejections, conn, uncaught, pr, started, serr,
                  disk, store, remote, mk, resp, ws, ex, sd, ld >>

\* The response callback, whatever the status: response.pipe(file) and the
\* 'finish' listener.  A success status serves the archive.
ReqResponse ==
  /\ Alive
  /\ req = "connecting"
  /\ req' = "responding"
  /\ \E code \in StatusCodes :
       /\ resp' = [status |-> code, received |-> 0]
       /\ IF Success(code) /\ remote.kind = "unknown"
            THEN \E k \in ArchiveKinds : remote' = [remote EXCEPT !.kind = k]
            ELSE UNCHANGED remote
  /\ UNCHANGED << cart, crawl, orch, disk, store, mk, ws, unl, ex, sd, ld >>

\* A 'data' event of the response: pipe hands the chunk to file.write.
RespData ==
  /\ Alive
  /\ req = "responding"
  /\ resp.received < BodyChunks
  /\ resp' = [resp EXCEPT !.received = @ + 1]
  /\ ws' = [ws EXCEPT !.buffered = @ + 1]
  /\ UNCHANGED << cart, crawl, orch, disk, store, remote, mk, req, unl, ex, sd, ld >>

\* What the chunks of a response with this status are chunks of.
BodyOf(code) == IF Success(code) THEN "remote" ELSE "errpage"

\* The open stream writes a buffered chunk through its descriptor; after an
\* unlink the descriptor no longer names the file at dest.
WsWrite ==
  /\ Alive
  /\ ws.state = "open"
  /\ ws.buffered > 0
  /\ ws' = [ws EXCEPT !.buffered = @ - 1]
  /\ IF ws.detached
       THEN UNCHANGED archiveFile
       ELSE archiveFile' = [exists |-> TRUE, body |-> BodyOf(resp.status),
                            chunks |-> archiveFile.chunks + 1]
  /\ UNCHANGED << cart, crawl, orch, dirs, csv, store, remote, mk, req, resp, unl, ex, sd, ld >>

\* The response's 'end': pipe calls file.end().
RespEnd ==
  /\ Alive
  /\ req = "responding"
  /\ resp.received = BodyChunks
  /\ req' = "ended"
  /\ ws' = [ws EXCEPT !.ended = TRUE]
  /\ UNCHANGED << cart, crawl, orch, disk, store, remote, mk, resp, unl, ex, sd, ld >>

\* The server closes the connection before the body is complete: the
\* response is destroyed ('aborted'); with no 'error' listener on it nothing
\* is emitted, and pipe does not end the destination.
RespAborted ==
  /\ Alive
  /\ req = "responding"
  /\ resp.received < BodyChunks
  /\ req' = "aborted"
  /\ UNCHANGED << cart, crawl, orch, disk, store, remote, mk, resp, ws, unl, ex, sd, ld >>

\* A socket error while the body is arriving: 'error' on the request.
SocketError ==
  /\ Alive
  /\ req = "responding"
  /\ OnRequestError("ECONNRESET")
  /\ UNCHANGED << cart, crawl, run, outcome, perr, logDone, firstRun, rejections, conn, uncaught, pr, started, serr,
                  disk, store, remote, mk, resp, ws, ex, sd, ld >>

\* Mutant: the close is triggered by the response's 'end', not by the
\* stream's 'finish'.
FinishOnEnd(w) == w.state = "open" /\ w.ended

\* 'finish' of the write stream: end() was called and every buffered chunk
\* has been written.
FinishReady(w) == w.state = "open" /\ w.ended /\ w.buffered = 0

\* file.on('finish', () => file.close(resolve)).
WsFinish ==
  /\ Alive
  /\ FinishReady(ws)
  /\ ws' = [ws EXCEPT !.state = "closing"]
  /\ UNCHANGED << cart, crawl, orch, disk, store, remote, mk, req, resp, unl, ex, sd, ld >>

\* The descriptor is closed and the callback of file.close runs: resolve.
WsClosed ==
  /\ Alive
  /\ ws.state = "closing"
  /\ ws' = [ws EXCEPT !.state = "closed"]
  /\ IF pr["downloadFile"] = "running"
       THEN ResolveStage("downloadFile")
       ELSE UNCHANGED << pr, serr, raised >>
  /\ UNCHANGED << cart, crawl, run, outcome, perr, logDone, firstRun, rejections, conn, uncaught, started,
                  disk, store, remote, mk, req, resp, unl, ex, sd, ld >>

\* The unlink runs on the thread pool: it removes whatever is at dest.
UnlinkExec ==
  /\ Alive
  /\ unl = "issued"
  /\ IF archiveFile.exists
       THEN /\ archiveFile' = NoArchive
            /\ ws' = [ws EXCEPT !.detached = ws.state \in {"open", "closing"}]
            /\ unl' = "ok"
       ELSE /\ unl' = "enoent"
            /\ UNCHANGED << archiveFile, ws >>
  /\ UNCHANGED << cart, crawl, orch, dirs, csv, store, remote, mk, req, resp, ex, sd, ld >>

\* The callback of unlink: a failed unlink is logged; reject(err) either way.
UnlinkCallback ==
  /\ Alive
  /\ unl \in {"ok", "enoent"}
  /\ unl' = "done"
  /\ IF pr["downloadFile"] = "running"
       THEN RejectStage("downloadFile", raised["downloadFile"])
       ELSE UNCHANGED << pr, serr, raised >>
  /\ UNCHANGED << cart, crawl, run, outcome, perr, logDone, firstRun, rejections, conn, uncaught, started,
                  disk, store, remote, mk, req, resp, ws, ex, sd, ld >>


\* ------------------------------------------------------------ extractTarGz
\* What a reader of archivePath finds there.
ArchiveContent ==
  IF ~archiveFile.exists THEN "missing"
  ELSE IF archiveFile.chunks < BodyChunks THEN "truncated"
  ELSE IF archiveFile.body = "remote" THEN remote.kind
  ELSE "notgzip"

\* The entries of a well-formed archive, in archive order.
EntryOrder == << "customers", "organizations" >>

CallExtractTarGz ==
  /\ CanCall("downloadFile", "extractTarGz")
  /\ Begin("extractTarGz")
  /\ ex' = [phase |-> "running", next |-> 1]
  /\ UNCHANGED << cart, crawl, run, outcome, perr, logDone, firstRun, rejections, conn, uncaught, raised, serr,
                  disk, store, remote, mk, dl, sd, ld >>

\* 'error' on the file read stream (missing or unreadable archive): pipe
\* forwards no errors and the stream has no listener.
ExReadError ==
  /\ Alive
  /\ ex.phase = "running"
  /\ ex.next = 1
  /\ Crash("extractTarGz", IF ArchiveContent = "missing" THEN "ENOENT" ELSE "EIO")
  /\ UNCHANGED << cart, crawl, run, outcome, perr, logDone, firstRun, rejections, conn, pr, started, serr,
                  disk, store, remote, mk, dl, ex, sd, ld >>

\* 'error' on the gunzip stream (not gzip data, or truncated): no listener.
ExGunzipError ==
  /\ Alive
  /\ ex.phase = "running"
  /\ ArchiveContent \in {"notgzip", "truncated"}
  /\ Crash("extractTarGz", "Z_DATA_ERROR")
  /\ UNCHANGED << cart, crawl, run, outcome, perr, logDone, firstRun, rejections, conn, pr, started, serr,
                  disk, store, remote, mk, dl, ex, sd, ld >>

\* 'error' on the tar.extract stream (bad archive, or cwd not a directory):
\* this is the stream .on('error', reject) listens to.
ExTarError ==
  /\ Alive
  /\ ex.phase = "running"
  /\ pr["extractTarGz"] = "running"
  /\ \/ ArchiveContent = "badtar"
     \/ ArchiveContent = "ok" /\ dirs["extracted"] # "dir"
  /\ ex' = [ex EXCEPT !.phase = "failed"]
  /\ RejectStage("extractTarGz",
                 IF ArchiveContent = "badtar" THEN "TAR_BAD_ARCHIVE" ELSE "CwdError")
  /\ UNCHANGED << cart, crawl, run, outcome, perr, logDone, firstRun, rejections, conn, uncaught, started,
                  disk, store, remote, mk, dl, sd, ld >>

\* tar.extract unpacks the next entry under extractDir/dump, replacing a
\* file already there; an entry the archive lacks leaves the path as it is.
ExEntry ==
  /\ Alive
  /\ ex.phase = "running"
  /\ ArchiveContent = "ok"
  /\ dirs["extracted"] = "dir"
  /\ ex.next \in 1..Len(EntryOrder)
  /\ LET t == EntryOrder[ex.next] IN
       \E f \in (IF remote[t] = UnknownFile
                   THEN FileOptions(t) \cup {NoFile} ELSE {remote[t]}) :
         /\ remote' = [remote EXCEPT ![t] = f]
         /\ csv' = IF f = NoFile THEN csv ELSE [csv EXCEPT ![t] = f]
  /\ ex' = [ex EXCEPT !.next = @ + 1]
  /\ UNCHANGED << cart, crawl, orch, dirs, archiveFile, store, mk, dl, sd, ld >>

\* 'finish' of the tar.extract stream: resolve.
ExFinish ==
  /\ Alive
  /\ ex.phase = "running"
  /\ ex.next = Len(EntryOrder) + 1
  /\ ex' = [ex EXCEPT !.phase = "done"]
  /\ ResolveStage("extractTarGz")
  /\ UNCHANGED << cart, crawl, run, outcome, perr, logDone, firstRun, rejections, conn, uncaught, started,
                  disk, store, remote, mk, dl, sd, ld >>

\* ----------------------------------------------------------- setupDatabase
CallSetupDatabase ==
  /\ CanCall("extractTarGz", "setupDatabase")
  /\ Begin("setupDatabase")
  /\ sd' = 1
  /\ conn' = Acquire(conn, "setupDatabase")
  /\ UNCHANGED << cart, crawl, run, outcome, perr, logDone, firstRun, rejections, uncaught, raised, serr,
                  disk, store, remote, mk, dl, ex, ld >>

\* The awaited schema statement in flight completes; each is committed on
\* its own.
SetupStatement ==
  /\ Alive
  /\ pr["setupDatabase"] = "running"
  /\ sd \in 1..Len(SetupSteps)
  /\ LET r == ApplyDDL(store, SetupSteps[sd]) IN
       /\ store' = r.store
       /\ IF ~r.ok
            THEN /\ RejectStage("setupDatabase", "SQLITE_ERROR")
                 /\ sd' = 0
            ELSE IF sd = Len(SetupSteps)
              THEN /\ ResolveStage("setupDatabase")
                   /\ sd' = 0
              ELSE /\ sd' = sd + 1
                   /\ UNCHANGED << pr, serr, raised >>
  /\ UNCHANGED << cart, crawl, run, outcome, perr, logDone, firstRun, rejections, conn, uncaught, started,
                  disk, remote, mk, dl, ex, ld >>

\* The store fails the statement in flight (unreachable, locked, disk full).
SetupFault ==
  /\ Alive
  /\ pr["setupDatabase"] = "running"
  /\ sd \in 1..Len(SetupSteps)
  /\ RejectStage("setupDatabase", "SQLITE_BUSY")
  /\ sd' = 0
  /\ UNCHANGED << cart, crawl, run, outcome, perr, logDone, firstRun, rejections, conn, uncaught, started,
                  disk, store, remote, mk, dl, ex, ld >>

\* -------------------------------------------------------- parseAndInsertCSV
CallParseAndInsertCSV(prev, t) ==
  /\ CanCall(prev, LoadStage(t))
  /\ Begin(LoadStage(t))
  /\ ld' = [ld EXCEPT ![t] = [NoLoad EXCEPT !.phase = "parsing"]]
  /\ UNCHANGED << cart, crawl, run, outcome, perr, logDone, firstRun, rejections, conn, uncaught, raised, serr,
                  disk, store, remote, mk, dl, ex, sd >>

CallParseCustomers == CallParseAndInsertCSV("setupDatabase", "customers")

CallParseOrganizations == CallParseAndInsertCSV("loadCustomers", "organizations")

\* 'error' on the file read stream (no file at filePath): no listener.
LdReadError(t) ==
  /\ Alive
  /\ ld[t].phase = "parsing"
  /\ csv[t] = NoFile
  /\ Crash(LoadStage(t), "ENOENT")
  /\ UNCHANGED << cart, crawl, run, outcome, perr, logDone, firstRun, rejections, conn, pr, started, serr,
                  disk, store, remote, mk, dl, ex, sd, ld >>

\* The parser reads the next data row: a 'data' event (rows.push(row)), or
\* an 'error' event (reject) for a row longer than the header.
LdData(t) ==
  /\ Alive
  /\ ld[t].phase = "parsing"
  /\ csv[t] # NoFile
  /\ ld[t].idx < csv[t].n
  /\ LET row == RowOf(csv[t], ld[t].idx + 1) IN
       IF RowTooLong(csv[t].header, row)
         THEN /\ ld' = [ld EXCEPT ![t].phase = "failed"]
              /\ RejectStage(LoadStage(t), "ParseError")
         ELSE /\ ld' = [ld EXCEPT ![t].idx = @ + 1,
                                  ![t].rows = Append(@, MapHeaders(csv[t].header, row))]
              /\ UNCHANGED << pr, serr, raised >>
  /\ UNCHANGED << cart, crawl, run, outcome, perr, logDone, firstRun, rejections, conn, uncaught, started,
                  disk, store, remote, mk, dl, ex, sd >>

\* Mutant: 'end' is acted on only after a 'data' event.
EndAfterData(f, idx) == idx = f.n /\ idx > 0

\* The parser emits 'end' once every data row of the file has been emitted,
\* also when there is none.
ParserAtEnd(f, idx) == idx = f.n

\* 'end' of the parser: db.batchInsert(tableName, rows, 100) begins, one
\* transaction around all its chunks.
LdEnd(t) ==
  /\ Alive
  /\ ld[t].phase = "parsing"
  /\ csv[t] # NoFile
  /\ ParserAtEnd(csv[t], ld[t].idx)
  /\ ld' = [ld EXCEPT ![t].phase = "inserting"]
  /\ conn' = Acquire(conn, LoadStage(t))
  /\ UNCHANGED << cart, crawl, run, outcome, perr, logDone, firstRun, rejections, uncaught,
                  pr, started, raised, serr,
                  disk, store, remote, mk, dl, ex, sd >>

\* The insert of the next chunk inside the transaction; a refused insert
\* rolls the transaction back and batchInsert rejects.
LdInsertChunk(t) ==
  /\ Alive
  /\ ld[t].phase = "inserting"
  /\ ld[t].chunk < NumChunks(ld[t].rows)
  /\ LET c == ChunkOf(ld[t].rows, ld[t].chunk + 1) IN
       IF InsertOk(store, t, c)
         THEN /\ LET r == TxInsert(store, t, ld[t].tx, c) IN
                   /\ ld' = [ld EXCEPT ![t].chunk = @ + 1, ![t].tx = r.tx]
                   /\ store' = r.store
              /\ UNCHANGED << pr, serr, raised >>
         ELSE /\ ld' = [ld EXCEPT ![t].phase = "failed", ![t].tx = << >>]
              /\ store' = Rollback(store, t)
              /\ RejectStage(LoadStage(t), "SQLITE_ERROR")
  /\ UNCHANGED << cart, crawl, run, outcome, perr, logDone, firstRun, rejections, conn, uncaught, started,
                  disk, remote, mk, dl, ex, sd >>

\* The store fails the insert in flight.
LdInsertFault(t) ==
  /\ Alive
  /\ ld[t].phase = "inserting"
  /\ ld[t].chunk < NumChunks(ld[t].rows)
  /\ ld' = [ld EXCEPT ![t].phase = "failed", ![t].tx = << >>]
  /\ store' = Rollback(store, t)
  /\ RejectStage(LoadStage(t), "SQLITE_BUSY")
  /\ UNCHANGED << cart, crawl, run, outcome, perr, logDone, firstRun, rejections, conn, uncaught, started,
                  disk, remote, mk, dl, ex, sd >>

\* The transaction commits after the last chunk and batchInsert resolves:
\* resolve().
LdCommit(t) ==
  /\ Alive
  /\ ld[t].phase = "inserting"
  /\ ld[t].chunk = NumChunks(ld[t].rows)
  /\ store' = IF ld[t].tx = << >> THEN store
              ELSE [store EXCEPT ![t].rows = @ \o ld[t].tx]
  /\ ld' = [ld EXCEPT ![t].phase = "done", ![t].tx = << >>]
  /\ ResolveStage(LoadStage(t))
  /\ UNCHANGED << cart, crawl, run, outcome, perr, logDone, firstRun, rejections, conn, uncaught, started,
                  disk, remote, mk, dl, ex, sd >>

\* -------------------------------------------------------------------- Next
\* Every step of a run but its start and its rejection.
StageStep ==
  \/ Done
  \/ EnsureDirectoryExistsAsync
  \/ CallDownloadFile
  \/ WsOpen
  \/ ReqError
  \/ ReqResponse
  \/ RespData
  \/ WsWrite
  \/ RespEnd
  \/ RespAborted
  \/ SocketError
  \/ WsFinish
  \/ WsClosed
  \/ UnlinkExec
  \/ UnlinkCallback
  \/ CallExtractTarGz
  \/ ExReadError
  \/ ExGunzipError
  \/ ExTarError
  \/ ExEntry
  \/ ExFinish
  \/ CallSetupDatabase
  \/ SetupStatement
  \/ SetupFault
  \/ CallParseCustomers
  \/ CallParseOrganizations
  \/ \E t \in Tables :
       \/ LdReadError(t)
       \/ LdData(t)
       \/ LdEnd(t)
       \/ LdInsertChunk(t)
       \/ LdInsertFault(t)
       \/ LdCommit(t)

\* Every step of a run (all but the start of a new run).
RunStep == Propagate \/ StageStep

Next == ProcessDataDump \/ RunStep

Spec == Init /\ [][Next]_vars

\* The same program with the history of rejections kept.
NextRecorded == ProcessDataDump \/ PropagateRecorded \/ StageStep

SpecRecorded == Init /\ [][NextRecorded]_vars

\* The domain cart of challenge-3 under the user's clicks and the answers
\* of the availability check.
InitShop == IdlePipeline /\ InitCart /\ InitCrawl

SpecCart == InitShop /\ [][NextCart]_vars

\* The runner of challenge-2.
SpecRunner == InitShop /\ [][NextRunner]_vars


\* ================================================================ claims
\* The run can take no further step.
Quiescent == ~ENABLED RunStep

IsPrefix(a, b) == Len(a) <= Len(b) /\ \A i \in 1..Len(a) : a[i] = b[i]

LoadActive(t) == ld[t].phase \in {"parsing", "inserting"}

\* C1: in every run the stages are called in the fixed order ensureDirs,
\* downloadFile, extractTarGz, setupDatabase, load of customers, load of
\* organizations; each is called at most once, and only when the stage
\* before it has resolved; the two loads are never active together.
C1_StagesInOrder ==
  /\ IsPrefix(started, StageOrder)
  /\ \A i \in 2..Len(started) : pr[StageOrder[i - 1]] = "resolved"
  /\ \A s \in Stages : pr[s] # "none" <=> s \in Range(started)
  /\ ~(LoadActive("customers") /\ LoadActive("organizations"))

C1_Witness ==
  /\ started = StageOrder
  /\ ld["customers"].phase = "done"
  /\ ld["organizations"].phase = "inserting"

\* C2 (as claimed): once a stage has met a failure and the run has come to
\* rest, processDataDump has rejected with that stage's error and no later
\* stage was called; and processDataDump resolves, logging Done, only when
\* every stage has resolved.
C2_FailureRejects ==
  /\ \A i \in 1..Len(StageOrder) :
       raised[StageOrder[i]] # NoErr =>
         /\ Len(started) <= i
         /\ Quiescent => outcome = "rejected" /\ perr = raised[StageOrder[i]]
  /\ outcome = "resolved" => logDone /\ \A s \in Stages : pr[s] = "resolved"
  /\ logDone => outcome = "resolved"

\* C3 (as claimed): a run that has not settled can always take another
\* step, so no run comes to rest with its promise pending.
C3_RunSettles == outcome = "pending" => ~Quiescent

\* C4 (as claimed): at the step that delivers downloadFile's rejection (the
\* callback of unlink) no file exists at the destination path.
C4_NoFileAtRejection ==
  [][(unl \in {"ok", "enoent"} /\ unl' = "done") => ~archiveFile'.exists]_vars

\* C5 (as claimed): after a response with a non-success status downloadFile
\* does not resolve, its body is not at the destination path once
\* downloadFile has settled, and the extractor is not called.
C5_NonSuccessFails ==
  (resp.status # 0 /\ ~Success(resp.status)) =>
    /\ pr["downloadFile"] # "resolved"
    /\ pr["downloadFile"] # "running" =>
         ~(archiveFile.exists /\ archiveFile.body = "errpage")
    /\ pr["extractTarGz"] = "none"

\* C6: downloadFile has resolved only if every chunk of the response body
\* was received and written to the destination and the write stream is
\* closed; extractTarGz runs only on such an archive; after a response that
\* ended early downloadFile has not resolved and the extractor is not
\* called.
C6_ResolvedMeansComplete ==
  /\ pr["downloadFile"] = "resolved" =>
       /\ resp.received = BodyChunks
       /\ archiveFile.exists /\ archiveFile.chunks = BodyChunks
       /\ ws.state = "closed" /\ ws.buffered = 0
  /\ ex.phase # "idle" =>
       /\ ws.state = "closed"
       /\ ArchiveContent \notin {"missing", "truncated"}
  /\ req = "aborted" => pr["downloadFile"] = "running" /\ ex.phase = "idle"

C6_Witness ==
  /\ ex.phase = "running"
  /\ archiveFile.chunks = BodyChunks
  /\ ws.state = "closed"

\* C7 (as claimed): whenever one of the three chained streams of
\* extractTarGz has emitted an error, extractTarGz has rejected with that
\* error by the time the run comes to rest.
C7_ExtractRejects ==
  (raised["extractTarGz"] # NoErr /\ Quiescent) =>
    /\ pr["extractTarGz"] = "rejected"
    /\ serr["extractTarGz"] = raised["extractTarGz"]

FreshStore == [t \in Tables |-> EmptyTable]

\* C8: from whatever store it starts on, setupDatabase is refused no schema
\* statement (it fails only when the store itself fails), and when it
\* resolves both tables exist and are empty; the store it leaves does not
\* depend on the store it found, so a second application changes nothing.
C8_SetupResets ==
  /\ serr["setupDatabase"] \in {NoErr, "SQLITE_BUSY"}
  /\ (pr["setupDatabase"] = "resolved" /\ pr["loadCustomers"] = "none") =>
       store = FreshStore

C8_Witness ==
  /\ run = MaxRuns
  /\ pr["setupDatabase"] = "resolved"
  /\ pr["loadCustomers"] = "none"
  /\ store = FreshStore

\* C9 (as claimed): when setupDatabase has rejected, the store does not hold
\* one table freshly created with the other one missing, and no load was
\* called.
C9_SetupAllOrNothing ==
  pr["setupDatabase"] = "rejected" =>
    /\ ~(\E t \in Tables, u \in Tables :
           t # u /\ store[t] = EmptyTable /\ ~store[u].exists)
    /\ pr["loadCustomers"] = "none" /\ pr["loadOrganizations"] = "none"

\* C10: after a run that resolved, each table exists and holds one row per
\* data row of its source file, in source order: row i carries, in every
\* declared column whose header position the data row has a field at, the
\* field of data row i at that position, and it has the declared columns
\* and no other.
C10_TablesMatchSources ==
  outcome = "resolved" =>
    \A t \in Tables :
      /\ store[t].exists
      /\ Len(store[t].rows) = csv[t].n
      /\ \A i \in 1..Len(store[t].rows) :
           /\ DOMAIN store[t].rows[i] = ColumnSet(t)
           /\ \A k \in 1..Len(csv[t].header) :
                k <= RowLen(csv[t], i) =>
                  store[t].rows[i][csv[t].header[k]] = << i, k >>

C10_Witness ==
  /\ outcome = "resolved"
  /\ Len(store["customers"].rows) = MaxRows
  /\ csv["organizations"].header = SwapHeader("organizations")
  /\ Len(store["organizations"].rows) = SmallRows

\* C11: a run that resolves after an earlier run has resolved against the
\* same store and the same archive leaves each table with the row count the
\* first run left; the counts do not add up, and no row the earlier run
\* wrote is kept beside the rows of the later one.
C11_RerunSameCounts ==
  (outcome = "resolved" /\ firstRun # NoCounts) =>
    /\ TableSizes(store) = firstRun
    /\ \A t \in Tables : Len(store[t].rows) = csv[t].n

C11_Witness ==
  /\ run = 2
  /\ outcome = "resolved"
  /\ firstRun["customers"] = MaxRows
  /\ firstRun["organizations"] = SmallRows
  /\ TableSizes(store) = firstRun

\* C12: the load is streaming: at every moment of a load the rows parsed
\* and not yet written to the store number at most one batch, so the first
\* write of a file longer than a batch is issued before the end of input.
C12_BoundedBuffer ==
  \A t \in Tables :
    LoadActive(t) => Len(ld[t].rows) - Len(ld[t].tx) <= BatchSize

\* C13: every write parseAndInsertCSV issues carries at most BatchSize rows;
\* a write of fewer rows is the last one; and the writes, in the order
\* issued, are the parsed rows in source order, each row once: after every
\* write the rows written so far are a prefix of the parsed rows, and the
\* load resolves only when they are all of them.
C13_Batches ==
  [][\A t \in Tables :
       /\ ld'[t].chunk = ld[t].chunk + 1 =>
            LET n == Len(ld'[t].tx) - Len(ld[t].tx) IN
              /\ n >= 1
              /\ n <= BatchSize
              /\ n < BatchSize => Len(ld'[t].tx) = Len(ld[t].rows)
              /\ ld'[t].tx = SubSeq(ld[t].rows, 1, Len(ld'[t].tx))
       /\ (ld[t].phase = "inserting" /\ ld'[t].phase = "done") =>
            /\ ld[t].tx = ld[t].rows
            /\ store'[t].rows = ld[t].rows]_vars

C13_Witness ==
  /\ ld["customers"].phase = "inserting"
  /\ ld["customers"].chunk = 3
  /\ Len(ld["customers"].tx) = MaxRows

\* C14: for a tabular file with a header line and no data row,
\* parseAndInsertCSV meets no error and does not reject, it goes on until
\* it resolves, and the destination table exists with zero rows.
C14_EmptyFileLoads ==
  \A t \in Tables :
    (ld[t].phase # "idle" /\ csv[t] # NoFile /\ csv[t].n = 0 /\ Alive) =>
      /\ raised[LoadStage(t)] = NoErr
      /\ pr[LoadStage(t)] \in {"running", "resolved"}
      /\ pr[LoadStage(t)] = "running" => ENABLED (LdEnd(t) \/ LdCommit(t))
      /\ ld[t].phase = "done" <=> pr[LoadStage(t)] = "resolved"
      /\ store[t] = EmptyTable

C14_Witness ==
  /\ csv["customers"] # NoFile
  /\ csv["customers"].n = 0
  /\ ld["customers"].phase = "done"
  /\ pr["loadCustomers"] = "resolved"
  /\ store["customers"] = EmptyTable

\* C15: a data row with a required column missing is handled by one policy,
\* the same for both tables: the whole load fails with an error naming the
\* row, or the row is skipped and counted.  So a load that resolved has not
\* stored the row.
C15_OnePolicy ==
  \A t \in Tables :
    (ld[t].phase = "done" /\ csv[t] # NoFile /\ csv[t].short # 0) =>
      \A i \in 1..Len(store[t].rows) :
        store[t].rows[i][Columns(t)[1]] # << csv[t].short, 1 >>

\* C16: in every state of the store, over any sequence of runs, every
\* stored row has a value in every declared column of its table (an absent
\* column would be stored as NULL); the rows of a file whose header lacks a
\* declared column are never stored, the load fails instead.
C16_NoNullStored ==
  \A t \in Tables :
    /\ \A i \in 1..Len(store[t].rows) : DOMAIN store[t].rows[i] = ColumnSet(t)
    /\ (ld[t].phase # "idle" /\ csv[t] # NoFile /\ csv[t].n > 0
          /\ Range(csv[t].header) # ColumnSet(t)) =>
         /\ store[t].rows = << >>
         /\ ld[t].phase # "done"

C16_Witness ==
  /\ csv["organizations"] = File(MissingHeader("organizations"), 1, 0, 0)
  /\ Len(ld["organizations"].rows) = 1
  /\ ld["organizations"].phase = "failed"
  /\ serr["loadOrganizations"] = "SQLITE_ERROR"
  /\ Len(store["customers"].rows) = SmallRows

\* C17: when no organizations file is in the extracted tree, the run
\* fails: the process is not ended by the load, and once the run can take
\* no further step processDataDump has rejected with the error of the
\* missing path (it has not resolved and is not left pending).
C17_MissingFileRejects ==
  (pr["loadOrganizations"] # "none" /\ csv["organizations"] = NoFile) =>
    /\ Alive
    /\ Quiescent => (outcome = "rejected" /\ perr = "ENOENT")

\* C18: a failure of the organizations load (a rejection, or the error
\* that ends the process) leaves the customers table as the completed
\* customers load left it: existing, and holding exactly the rows that load
\* parsed and committed.
C18_CustomersKept ==
  (pr["loadCustomers"] = "resolved"
     /\ (pr["loadOrganizations"] = "rejected" \/ raised["loadOrganizations"] # NoErr)) =>
    /\ store["customers"].exists
    /\ store["customers"].rows = ld["customers"].rows

C18_Witness ==
  /\ pr["loadOrganizations"] = "rejected"
  /\ serr["loadOrganizations"] = "SQLITE_BUSY"
  /\ Len(ld["customers"].rows) = MaxRows
  /\ Len(store["customers"].rows) = MaxRows

\* C19: once the fetch has resolved, no step of the run, the rejection of
\* processDataDump included, deletes or changes the staged archive or
\* deletes an extracted file: they are all present when it rejects.
C19_StagingKept ==
  [][(pr["downloadFile"] = "resolved" /\ run' = run) =>
       /\ archiveFile' = archiveFile
       /\ archiveFile.exists
       /\ \A t \in Tables : csv[t] # NoFile => csv'[t] # NoFile]_vars

C19_Witness ==
  /\ outcome = "rejected"
  /\ perr = "SQLITE_ERROR"
  /\ pr["loadOrganizations"] = "rejected"
  /\ archiveFile.exists
  /\ \A t \in Tables : csv[t] # NoFile

Component(s) == IF s \in {"loadCustomers", "loadOrganizations"} THEN "load" ELSE s

\* C21: the error processDataDump rejects with identifies the failing
\* stage: a rejection that carries the same error as the rejection of an
\* earlier run comes from the same component, never from a different one.
C21_ErrorIdentifiesStage ==
  outcome = "rejected" =>
    \A a \in rejections : \A s \in Stages :
      (pr[s] = "rejected" /\ perr = a[2]) => Component(s) = Component(a[1])

\* C22: ensureDirectoryExistsAsync resolves only if the directory exists
\* afterward, whatever was at the path before: once the three calls have
\* resolved all three paths are directories, so the staging directory
\* exists when downloadFile is called and the extract directory exists
\* when extractTarGz is called.
C22_DirsExist ==
  /\ pr["ensureDirs"] = "resolved" => \A d \in DOMAIN dirs : dirs[d] = "dir"
  /\ pr["downloadFile"] # "none" => dirs["tmp"] = "dir"
  /\ pr["extractTarGz"] # "none" => dirs["extracted"] = "dir"

\* C27: every store connection a stage opened has been closed by the time
\* processDataDump settles, on success and on failure alike.
C27_ConnectionsClosed ==
  outcome \in {"resolved", "rejected"} => \A s \in StoreStages : conn[s] # "open"

\* C28: when downloadFile settles, the write stream it created on the
\* destination is closed: no open or pending descriptor is left through
\* which the path could still be created or written.
C28_StreamClosed ==
  pr["downloadFile"] \in {"resolved", "rejected"} => ws.state = "closed"

\* C23: the cart never holds more than maxDomains entries.
C23_CartWithinLimit == Size(domains) <= MaxDomains

\* C24: a confirmed Keep Best leaves min(N, size) entries, all of them
\* entries of the cart as it was at the confirmation, and no entry it
\* dropped is strictly better than one it kept.
C24_KeepBestOfCart ==
  [][op' = "keepBest" =>
       /\ Size(domains') = Min(MaxDomains, Size(domains))
       /\ \A k \in Kinds : domains'[k] <= domains[k]
       /\ \A d \in Kinds : \A e \in Kinds :
            (domains'[d] < domains[d] /\ domains'[e] > 0) => Compare(d, e) >= 0]_vars

\* C25: the purchase is enabled exactly when the cart holds
\* numDomainsRequired entries, and a purchase leaves the cart empty.
C25_Purchase ==
  /\ CanPurchase(domains) <=> (Size(domains) = MaxDomains)
  /\ (ENABLED HandlePurchase) <=> (~Modal /\ Size(domains) = MaxDomains)
  /\ op = "purchase" => Size(domains) = 0

\* C25 witness: a purchase has just been made.
C25_Witness == op = "purchase" /\ domains = EmptyCart

\* C26: no two entries of the cart have the same name.
C26_NoDuplicateNames == \A n \in Names : CountOfName(domains, n) <= 1

\* C29: the runner has printed Done only if processCompanyList parsed the
\* list, crawled it and wrote the JSON file; a failure is caught by the
\* runner.
C29_DoneMeansWritten ==
  /\ runner = "done" => (job.written /\ job.error = NoErr)
  /\ (job.phase = "returned" /\ job.error # NoErr) => runner \in {"awaiting", "caught"}
====
